---- MODULE Spec2Model ----
(***************************************************************************)
(* Model of dradis-rs, src/lib.rs: WifiScan::scan.  One call of scan is    *)
(* followed from iw_sockets_open, through CString::new, iw_get_range_info  *)
(* and iw_scan, over the while loop that walks the driver's result chain,  *)
(* to the returned Result.  The three extern "C" functions are the         *)
(* environment: their return values and the chain are chosen by \E.        *)
(***************************************************************************)
EXTENDS Integers, Sequences, FiniteSets, TLC

\* ------------------------------------------------------------------ bounds
MaxNodes == 2          \* nodes of the chain the driver returns
MaxVisit == 5          \* loop iterations followed on a chain that never ends
MaxKeyFlags == 8       \* key_flags values 0..MaxKeyFlags
DefensiveMax == 3      \* the traversal cap the design asks for (scaled down)

\* ------------------------------------------------- constants of the source
IW_AUTH_WPA_VERSION_DISABLED == 1
IW_AUTH_WPA_VERSION_WPA == 2
IW_AUTH_WPA_VERSION_WPA2 == 4
IW_ESSID_MAX_SIZE == 32
EssidBufLen == IW_ESSID_MAX_SIZE + 2

\* --------------------------------------------------------------- Option<T>
None == << >>
Some(v) == << v >>

\* ------------------------------------------------------------ bit operations
\* x & y on non-negative c_int values, bit by bit.
RECURSIVE BitAnd(_, _)
BitAnd(x, y) ==
    IF x = 0 \/ y = 0 THEN 0
    ELSE (IF x % 2 = 1 /\ y % 2 = 1 THEN 1 ELSE 0) + 2 * BitAnd(x \div 2, y \div 2)

\* ------------------------------------------------------ encryption (463-472)
decodeEncryptionWpa2First(key_flags) ==
    IF BitAnd(key_flags, IW_AUTH_WPA_VERSION_DISABLED) > 0 THEN "None"
    ELSE IF BitAnd(key_flags, IW_AUTH_WPA_VERSION_WPA2) > 0 THEN "WPA2"
    ELSE IF BitAnd(key_flags, IW_AUTH_WPA_VERSION_WPA) > 0 THEN "WPA"
    ELSE "Error"

decodeEncryptionUnknown(key_flags) ==
    IF BitAnd(key_flags, IW_AUTH_WPA_VERSION_DISABLED) > 0 THEN "None"
    ELSE IF BitAnd(key_flags, IW_AUTH_WPA_VERSION_WPA) > 0 THEN "WPA"
    ELSE IF BitAnd(key_flags, IW_AUTH_WPA_VERSION_WPA2) > 0 THEN "WPA2"
    ELSE "Unknown"

decodeEncryption(key_flags) ==
    IF BitAnd(key_flags, IW_AUTH_WPA_VERSION_DISABLED) > 0 THEN "None"
    ELSE IF BitAnd(key_flags, IW_AUTH_WPA_VERSION_WPA) > 0 THEN "WPA"
    ELSE IF BitAnd(key_flags, IW_AUTH_WPA_VERSION_WPA2) > 0 THEN "WPA2"
    ELSE "Error"

\* ----------------------------------------------------------- essid (473-488)
\* u8slice.into_iter().position(|&byte| byte == 0x0): Some(index) or None.
FirstZero(buf) ==
    IF \E i \in 1..Len(buf) : buf[i] = 0
    THEN Some((CHOOSE i \in 1..Len(buf) : buf[i] = 0 /\ \A j \in 1..(i - 1) : buf[j] # 0) - 1)
    ELSE None

\* to_string_lossy, for the bytes the buffers below hold (NUL, 'A', 'B' and
\* 0xFF): an ASCII byte is its own character, and 0xFF, which no UTF-8
\* sequence contains, becomes U+FFFD.
Utf8Lossy(bytes) ==
    [i \in 1..Len(bytes) |-> IF bytes[i] < 128 THEN bytes[i] ELSE 65533]

\* How the evaluation of an expression ends: with a value, or in a panic.
Panicked == [panic |-> TRUE, value |-> None]
Returned(v) == [panic |-> FALSE, value |-> v]

\* The essid of one node; position(..).unwrap() panics when no byte is 0.
decodeEssid(has_essid, essid) ==
    IF has_essid = 1
    THEN IF FirstZero(essid) = None
         THEN Panicked
         ELSE Returned(Some(Utf8Lossy(SubSeq(essid, 1, FirstZero(essid)[1]))))
    ELSE Returned(None)

\* ------------------------------------------------- WirelessNetwork (489-499)
MakeNetwork(node) ==
    [ap_addr4 |-> None, ap_addr6 |-> None, maxbitrate |-> None, freq |-> None,
     key |-> None, mode |-> None,
     essid |-> decodeEssid(node.has_essid, node.essid).value,
     encryption |-> decodeEncryption(node.key_flags),
     stats |-> Some(node.stats)]

\* -------------------------------------------------- what the driver returns
Pad(prefix, fill) ==
    [i \in 1..EssidBufLen |-> IF i <= Len(prefix) THEN prefix[i] ELSE fill]

EssidAB == Pad(<<65, 66, 0>>, 0)

\* "", "AB" followed by non-zero padding, a text with an invalid byte, and a
\* buffer without any zero byte.
EssidBuffers ==
    {Pad(<< >>, 0), Pad(<<65, 66, 0>>, 66), Pad(<<255, 65>>, 0), Pad(<< >>, 66)}

KeyFlagValues == 0..MaxKeyFlags

HasFlagValues == {0, 1, 2}

StatsValues ==
    {[status |-> 0, quality |-> [quality |-> 70, level |-> 200, noise |-> 0]],
     [status |-> 1, quality |-> [quality |-> 255, level |-> 1, noise |-> 9]]}

StatsDefault == [status |-> 0, quality |-> [quality |-> 70, level |-> 200, noise |-> 0]]

ScanNode(key_flags, has_essid, essid, has_stats, stats) ==
    [key_flags |-> key_flags, has_essid |-> has_essid, essid |-> essid,
     has_stats |-> has_stats, stats |-> stats]

\* The fields are decoded independently of each other, so each is varied
\* over its whole set while the others keep one value.
ScanNodes ==
    {ScanNode(f, 1, EssidAB, 1, StatsDefault) : f \in KeyFlagValues}
    \cup {ScanNode(0, h, b, 1, StatsDefault) : h \in HasFlagValues, b \in EssidBuffers}
    \cup {ScanNode(IW_AUTH_WPA_VERSION_WPA, 0, EssidAB, s, st) :
            s \in {0, 1}, st \in StatsValues}

\* A chain: its nodes in order, and where the last node's next points
\* (0 is the null pointer; k > 0 closes a cycle back to node k).
Chains ==
    {[nodes |-> ns, loopTo |-> l] :
        ns \in UNION {[1..n -> ScanNodes] : n \in 0..MaxNodes}, l \in 0..MaxNodes}

WellFormedChains == {c \in Chains : c.loopTo <= Len(c.nodes)}

NoChain == [nodes |-> << >>, loopTo |-> 0]

\* (*result).next
NextOf(c, p) == IF p < Len(c.nodes) THEN p + 1 ELSE c.loopTo

\* (*head).result
HeadOf(c) == IF Len(c.nodes) = 0 THEN 0 ELSE 1

WeVersions == {21, 22}

\* ------------------------------------------------------------------ errors
RangeError == [kind |-> "InvalidData", msg |-> "Got an error from the iw library"]
ScanRequestError == [kind |-> "InvalidData", msg |-> "Got an error from the iw library"]

NoResult == [tag |-> "none"]
Err(e) == [tag |-> "Err", error |-> e]
Ok(networks) == [tag |-> "Ok", networks |-> networks]

\* ------------------------------------------------------------------- state
VARIABLES
    pc,            \* position in scan(): open, cstring, range, scan, walk, done, panicked, crashed
    interfaceNul,  \* the interface String holds a 0 byte
    sock,          \* value returned by iw_sockets_open
    range,         \* iw_range.we_version_compiled
    chain,         \* the chain iw_scan stored behind head
    result,        \* the loop's pointer into the chain, 0 = null
    list,          \* Vec<WirelessNetwork>
    returned,      \* the Result scan() returned
    calls,         \* driver calls made so far, in order
    visited,       \* nodes of the chain the loop dereferenced, in order
    failedStage    \* first driver stage that reported failure

vars == <<pc, interfaceNul, sock, range, chain, result, list, returned, calls,
          visited, failedStage>>

Init ==
    /\ pc = "open"
    /\ interfaceNul \in BOOLEAN
    /\ sock = 0
    /\ range = 0
    /\ chain = NoChain
    /\ result = 0
    /\ list = << >>
    /\ returned = NoResult
    /\ calls = << >>
    /\ visited = << >>
    /\ failedStage = "none"

\* line 436: let sock = unsafe { iw_sockets_open() };  the value is not tested.
IwSocketsOpen ==
    /\ pc = "open"
    /\ \E fd \in {-1, 3} :
        /\ sock' = fd
        /\ failedStage' = IF fd < 0 THEN "open" ELSE failedStage
    /\ calls' = Append(calls, [op |-> "open"])
    /\ pc' = "cstring"
    /\ UNCHANGED <<interfaceNul, range, chain, result, list, returned, visited>>

\* line 437: CString::new(interface).unwrap() panics on an interior 0 byte.
MakeInterfaceName ==
    /\ pc = "cstring"
    /\ pc' = IF interfaceNul THEN "panicked" ELSE "range"
    /\ UNCHANGED <<interfaceNul, sock, range, chain, result, list, returned, calls,
                   visited, failedStage>>

\* lines 443-446.  A call on a socket that was never opened fails.
IwGetRangeInfo ==
    /\ pc = "range"
    /\ calls' = Append(calls, [op |-> "range", sock |-> sock])
    /\ \/ /\ sock >= 0
          /\ \E v \in WeVersions : range' = v
          /\ pc' = "scan"
          /\ UNCHANGED <<returned, failedStage>>
       \/ /\ range' = range
          /\ returned' = Err(RangeError)
          /\ failedStage' = IF failedStage = "none" THEN "range" ELSE failedStage
          /\ pc' = "done"
    /\ UNCHANGED <<interfaceNul, sock, chain, result, list, visited>>

\* range is handed to the driver as a shared reference (&iw_range, line 400)
\* and written through it, so the read of range.we_version_compiled on line
\* 450 yields either what the driver wrote or the value of Default::default().
VersionRead == {range, 0}

\* lines 447-457.  head is an uninitialized pointer (439-442): the driver's
\* store through it either faults or lands in memory that is read back.
IwScan ==
    /\ pc = "scan"
    /\ \E v \in VersionRead :
         calls' = Append(calls, [op |-> "scan", sock |-> sock, version |-> v])
    /\ \/ /\ returned' = Err(ScanRequestError)
          /\ failedStage' = IF failedStage = "none" THEN "scan" ELSE failedStage
          /\ pc' = "done"
          /\ UNCHANGED <<chain, result>>
       \/ /\ pc' = "crashed"
          /\ UNCHANGED <<chain, result, returned, failedStage>>
       \/ /\ \E c \in WellFormedChains :
               /\ chain' = c
               /\ result' = HeadOf(c)
          /\ pc' = "walk"
          /\ UNCHANGED <<returned, failedStage>>
    /\ UNCHANGED <<interfaceNul, sock, range, list, visited>>

\* lines 458-501: one iteration of while !result.is_null().
WalkNode ==
    /\ pc = "walk"
    /\ result # 0
    /\ Len(visited) < MaxVisit
    /\ visited' = Append(visited, result)
    /\ LET node == chain.nodes[result] IN
         IF decodeEssid(node.has_essid, node.essid).panic
         THEN /\ pc' = "panicked"
              /\ UNCHANGED <<list, result>>
         ELSE /\ list' = Append(list, MakeNetwork(node))
              /\ result' = NextOf(chain, result)
              /\ pc' = "walk"
    /\ UNCHANGED <<interfaceNul, sock, range, chain, returned, calls, failedStage>>

\* lines 458, 503: the loop ends at the null pointer; Ok(WifiScan { networks: list }).
ReturnOk ==
    /\ pc = "walk"
    /\ result = 0
    /\ returned' = Ok(list)
    /\ pc' = "done"
    /\ UNCHANGED <<interfaceNul, sock, range, chain, result, list, calls, visited,
                   failedStage>>

Next ==
    \/ IwSocketsOpen
    \/ MakeInterfaceName
    \/ IwGetRangeInfo
    \/ IwScan
    \/ WalkNode
    \/ ReturnOk

Spec == Init /\ [][Next]_vars

\* ------------------------------------------------------------ properties
\* The node the loop dereferenced in its i-th iteration.
NodeVisited(i) == chain.nodes[visited[i]]

HasBit(flags, bit) == (flags \div bit) % 2 = 1

NoRecognisedBit(flags) ==
    ~HasBit(flags, 1) /\ ~HasBit(flags, 2) /\ ~HasBit(flags, 4)

Unterminated(node) == node.has_essid = 1 /\ \A i \in 1..Len(node.essid) : node.essid[i] # 0

\* The bytes of a buffer before its first zero byte (all of it if there is none).
BeforeZero(buf) ==
    LET ends == {i \in 0..Len(buf) : \A j \in 1..i : buf[j] # 0}
        n == CHOOSE i \in ends : \A k \in ends : k <= i
    IN SubSeq(buf, 1, n)

Releases == Cardinality({i \in 1..Len(calls) : calls[i].op = "close"})

Called(op) == \E i \in 1..Len(calls) : calls[i].op = op

ScanRequestSucceeded == Called("scan") /\ failedStage = "none" /\ pc # "crashed"

\* C1: when scan() has returned and the channel had been opened, the channel
\* was released exactly once.
C1_ChannelReleasedOnce ==
    (pc = "done" /\ sock >= 0) => Releases = 1

\* C2: the traversal is capped: once more nodes than the defensive maximum
\* were visited, the scan has ended with the error MalformedResultChain.
C2_TraversalCapped ==
    Len(visited) > DefensiveMax =>
        /\ pc = "done"
        /\ returned.tag = "Err"
        /\ returned.error.kind = "MalformedResultChain"

\* C3: after a successful scan request that returned a null-terminated chain
\* of N nodes, the scan ends only by returning Ok with exactly N networks,
\* the i-th being the decoding of the i-th node.
C3_ListMatchesChain ==
    (ScanRequestSucceeded /\ chain.loopTo = 0 /\ pc \in {"done", "panicked"}) =>
        /\ returned.tag = "Ok"
        /\ Len(returned.networks) = Len(chain.nodes)
        /\ \A i \in 1..Len(chain.nodes) :
             returned.networks[i] = MakeNetwork(chain.nodes[i])

\* C4: every decoded entry's encryption follows the priority
\* disabled > WPA > WPA2 over the key_flags of the node it was decoded from.
C4_EncryptionPriority ==
    \A i \in 1..Len(list) :
        LET f == NodeVisited(i).key_flags
            e == list[i].encryption
        IN /\ HasBit(f, 1) => e = "None"
           /\ (~HasBit(f, 1) /\ HasBit(f, 2)) => e = "WPA"
           /\ (~HasBit(f, 1) /\ ~HasBit(f, 2) /\ HasBit(f, 4)) => e = "WPA2"

\* C4 witness: a returned list whose first node had all three bits set and
\* decoded to None, and whose second had WPA and WPA2 set and decoded to WPA.
C4_Witness ==
    /\ pc = "done"
    /\ returned.tag = "Ok"
    /\ Len(list) = 2
    /\ NodeVisited(1).key_flags = 7 /\ list[1].encryption = "None"
    /\ NodeVisited(2).key_flags = 6 /\ list[2].encryption = "WPA"

C6_StageErrorsDiffer ==
    pc = "done" =>
        /\ failedStage = "open" =>
             returned.tag = "Err" /\ returned.error \notin {RangeError, ScanRequestError}
        /\ failedStage = "range" =>
             returned.tag = "Err" /\ returned.error # ScanRequestError
        /\ failedStage = "scan" =>
             returned.tag = "Err" /\ returned.error # RangeError

\* C7: a visited node whose essid flag is set and whose buffer has no zero
\* byte does not abort the scan and is decoded to the text of all its bytes.
C7_UnterminatedEssidDecoded ==
    \A i \in 1..Len(visited) :
        Unterminated(NodeVisited(i)) =>
            /\ pc # "panicked"
            /\ Len(list) >= i
            /\ list[i].essid = Some(Utf8Lossy(NodeVisited(i).essid))

\* C8: a decoded entry's essid is absent when the node's flag is false, and
\* is the text before the first zero byte when the flag is any true value.
C8_EssidGatedByFlag ==
    \A i \in 1..Len(list) :
        LET node == NodeVisited(i) IN
        /\ node.has_essid = 0 => list[i].essid = None
        /\ (node.has_essid # 0 /\ \E k \in 1..Len(node.essid) : node.essid[k] = 0) =>
             list[i].essid = Some(Utf8Lossy(BeforeZero(node.essid)))

\* C9: no driver operation follows a failed stage, the scan request carries
\* the version the range query returned, and a failure returns no list.
C9_FailFast ==
    /\ failedStage = "open" => ~Called("range") /\ ~Called("scan")
    /\ failedStage = "range" => ~Called("scan")
    /\ \A i \in 1..Len(calls) :
         calls[i].op = "scan" => (i > 1 /\ calls[i - 1].op = "range" /\ calls[i].version = range)
    /\ failedStage # "none" => returned.tag # "Ok"

\* C10: a decoded entry's signal quality is absent when the node's has_stats
\* is not set, and is the node's quality when it is set.
C10_QualityGatedByFlag ==
    \A i \in 1..Len(list) :
        LET node == NodeVisited(i) IN
        /\ node.has_stats = 0 => list[i].stats = None
        /\ node.has_stats # 0 =>
             /\ list[i].stats # None
             /\ list[i].stats[1].quality = node.stats.quality

====
